---- MODULE Spec2Model ----
(***************************************************************************)
(* asphalt.core.application.Application: component registration            *)
(* (add_component) and the application lifecycle (run).                    *)
(***************************************************************************)
EXTENDS Naturals, Sequences, FiniteSets, TLC

VARIABLES
    components,       \* self.components: the ordered list of component instances
    component_types,  \* self.component_types: entry point name -> EntryPoint or loaded class
    loads,            \* number of EntryPoint.load() invocations per entry point name
    result,           \* outcome of the last add_component call ("ok" or the exception raised)
    pc,               \* position of the caller inside Application.run
    status,           \* per component index: progress of its start() operation
    hook,             \* progress of Application.start (the application's own hook)
    raised,           \* the exception travelling to the except clause of run
    exception,        \* context.exception
    escaped,          \* the exception that propagated out of run
    events            \* the observable effects of run, in order

vars == <<components, component_types, loads, result, pc, status, hook, raised,
          exception, escaped, events>>

regVars == <<components, component_types, loads, result>>
runVars == <<pc, status, hook, raised, exception, escaped, events>>

----------------------------------------------------------------------------
(* Bounds *)

MaxComponents == 3

----------------------------------------------------------------------------
(* Values *)

None == [ep |-> FALSE, name |-> "None"]
Class(n) == [ep |-> FALSE, name |-> n]
EntryPoint(n) == [ep |-> TRUE, name |-> n]

\* names declared in the 'asphalt.components' entry point group
EntryPointNames == {"db", "legacy"}

\* the class each entry point loads
EntryTarget(n) == IF n = "db" THEN "DbComponent" ELSE "LegacyService"

\* issubclass(cls, Component)
ComponentSubclasses == {"DbComponent", "Explicit"}

EmptyDict == [k \in {} |-> "a"]

\* the 'components' argument of the constructor: alias -> override parameters
component_config ==
    [a \in {"db", "x"} |->
        IF a = "db" THEN [k \in {"host", "tls"} |-> "b"]
        ELSE [k \in {"port"} |-> "b"]]

\* arguments of add_component
AliasInputs ==
    { [isStr |-> TRUE, s |-> "db"], [isStr |-> TRUE, s |-> "legacy"],
      [isStr |-> TRUE, s |-> "x"], [isStr |-> TRUE, s |-> ""],
      [isStr |-> FALSE, s |-> "7"] }
ClassInputs == {None, Class("Explicit"), Class("Plain")}
LocalKeys == {"host", "port"}
KwargsInputs == UNION { [D -> {"a"}] : D \in SUBSET LocalKeys }

\* exception classes raised by the collaborators
ExcClasses == {"Exception", "KeyboardInterrupt", "SystemExit"}
NoExc == [cls |-> "None", origin |-> "none", idx |-> 0]
Exc(cls, origin, idx) == [cls |-> cls, origin |-> origin, idx |-> idx]

\* outcomes of add_component
Ok == "ok"
ValidationFailure == "TypeError: component_alias must be a nonempty string"
LookupFailure == "LookupError: no such component type"
TypeConformanceFailure == "TypeError: the component class must be a subclass of Component"

----------------------------------------------------------------------------
(* add_component *)

\* variant: the emptiness test of line 57 is missing
ValidAlias_anyString(alias) == alias.isStr

\* isinstance(component_alias, str) and component_alias
ValidAlias(alias) == alias.isStr /\ alias.s # ""

\* variant: the registry is consulted even when a class is given
NeedsLookup_always(component_class) == TRUE

\* line 60: the registry is consulted only when no class is given
NeedsLookup(component_class) == component_class = None

\* line 61: component_alias in self.component_types
Registered(types, alias) == alias \in DOMAIN types

\* variant: the local parameters win over the overrides
Update_localWins(kwargs, other) ==
    [k \in (DOMAIN kwargs) \cup (DOMAIN other) |->
        IF k \in DOMAIN kwargs THEN kwargs[k] ELSE other[k]]

\* dict.update: the keys of 'other' replace those of 'kwargs'
Update(kwargs, other) ==
    [k \in (DOMAIN kwargs) \cup (DOMAIN other) |->
        IF k \in DOMAIN other THEN other[k] ELSE kwargs[k]]

\* self.component_config.get(component_alias, {})
ConfigGet(alias) ==
    IF alias \in DOMAIN component_config THEN component_config[alias] ELSE EmptyDict

\* variant: any class passes the check of line 68
IsSubclass_anyClass(cls) == TRUE

\* issubclass(component_class, Component)
IsSubclass(cls) == cls.name \in ComponentSubclasses

\* the value the cache holds for the alias once the lookup of lines 64-66 is done
Resolved(types, alias) ==
    IF types[alias].ep THEN Class(EntryTarget(types[alias].name)) ELSE types[alias]

\* variant: the loaded class is not stored back into self.component_types
CacheAfter_notStored(types, alias) == types

\* variant: the class is cached only when it passes the check of line 68
CacheAfter_onlyConforming(types, alias) ==
    IF Resolved(types, alias).name \in ComponentSubclasses
    THEN [types EXCEPT ![alias] = Resolved(types, alias)]
    ELSE types

\* lines 64-66: what the cache holds after the lookup
CacheAfter(types, alias) == [types EXCEPT ![alias] = Resolved(types, alias)]

\* lines 65-66: load() is invoked only on an EntryPoint
LoadsAfter(types, alias) ==
    IF types[alias].ep THEN [loads EXCEPT ![alias] = @ + 1] ELSE loads

\* variant: the new instance is put in front of the list
AddInstance_atFront(list, instance) == <<instance>> \o list

\* line 75: self.components.append(component)
AddInstance(list, instance) == Append(list, instance)

Raise(exc) ==
    /\ result' = exc
    /\ UNCHANGED <<components, component_types, loads>>

add_component(alias, component_class, component_kwargs) ==
    /\ pc = "registering"
    /\ Len(components) < MaxComponents
    /\ UNCHANGED runVars
    /\ IF ~ValidAlias(alias)
       THEN Raise(ValidationFailure)
       ELSE IF NeedsLookup(component_class) /\ ~Registered(component_types, alias.s)
       THEN Raise(LookupFailure)
       ELSE LET fromRegistry == NeedsLookup(component_class)
                cls == IF fromRegistry THEN Resolved(component_types, alias.s)
                       ELSE component_class
            IN /\ component_types' = IF fromRegistry
                                     THEN CacheAfter(component_types, alias.s)
                                     ELSE component_types
               /\ loads' = IF fromRegistry THEN LoadsAfter(component_types, alias.s)
                           ELSE loads
               /\ IF ~IsSubclass(cls)
                  THEN /\ result' = TypeConformanceFailure
                       /\ UNCHANGED components
                  ELSE /\ result' = Ok
                       /\ components' = AddInstance(components,
                              [alias |-> alias.s, cls |-> cls.name,
                               kwargs |-> Update(component_kwargs, ConfigGet(alias.s))])

----------------------------------------------------------------------------

(* run *)

\* an effect of run: a call, a dispatch, a completion
Ev(e, i) == [e |-> e, i |-> i, exc |-> NoExc]

\* a collaborator (component, hook, callback, event loop) raised exc
Raised(exc) == [e |-> "raise", i |-> exc.idx, exc |-> exc]

\* number of events of kind e so far
Count(e) == Cardinality({k \in 1..Len(events) : events[k].e = e})

\* position of the first event of kind e (0 when there is none)
First(e) ==
    IF Count(e) = 0 THEN 0
    ELSE CHOOSE k \in 1..Len(events) :
            events[k].e = e /\ \A j \in 1..(k - 1) : events[j].e # e

Indices == 1..Len(components)

\* the event loop is running (inside run_until_complete or run_forever)
LoopRunning == pc \in {"join", "hook_wait", "started", "serve", "finish"}

\* variant: the except clause names a class the raised Exception does not match
CaughtAtStartup_narrower(cls) == FALSE

\* line 114: 'except Exception' catches the class Exception and its subclasses only
CaughtAtStartup(cls) == cls = "Exception"

\* variant: every exception that ends run_forever is passed over
CaughtWhileServing_everything(cls) == TRUE

\* variant: SystemExit is missing from the except clause of line 121
CaughtWhileServing_onlyKeyboardInterrupt(cls) == cls = "KeyboardInterrupt"

\* line 121: 'except (KeyboardInterrupt, SystemExit)'
CaughtWhileServing(cls) == cls \in {"KeyboardInterrupt", "SystemExit"}

\* an exception raised inside the try block of lines 98-113
Throw(exc) ==
    IF CaughtAtStartup(exc.cls)
    THEN /\ pc' = "except"
         /\ raised' = exc
         /\ UNCHANGED escaped
    ELSE /\ pc' = "propagated"
         /\ escaped' = exc
         /\ UNCHANGED raised

\* lines 84-100: logging, executor, create_context, entering the try block
run ==
    /\ pc = "registering"
    /\ pc' = "launch"
    /\ status' = [i \in Indices |-> "unlaunched"]
    /\ UNCHANGED <<regVars, hook, raised, exception, escaped, events>>

\* variant: the start operations are called in no particular order
component_start_anyOrder(i) ==
    /\ pc = "launch"
    /\ i \in Indices
    /\ status[i] = "unlaunched"
    /\ status' = [status EXCEPT ![i] = "created"]
    /\ events' = Append(events, Ev("start", i))
    /\ UNCHANGED <<regVars, pc, hook, raised, exception, escaped>>

\* lines 101-102: component.start(context) is called for each component in list order;
\* it returns None, returns a coroutine, or raises
component_start(i) ==
    /\ pc = "launch"
    /\ i \in Indices
    /\ status[i] = "unlaunched"
    /\ \A j \in 1..(i - 1) : status[j] # "unlaunched"
    /\ \/ /\ status' = [status EXCEPT ![i] = "returned"]
          /\ events' = Append(events, Ev("start", i))
          /\ UNCHANGED <<pc, raised, escaped>>
       \/ /\ status' = [status EXCEPT ![i] = "created"]
          /\ events' = Append(events, Ev("start", i))
          /\ UNCHANGED <<pc, raised, escaped>>
       \/ \E cls \in ExcClasses :
             /\ status' = [status EXCEPT ![i] = "raised"]
             /\ events' = Append(Append(events, Ev("start", i)),
                                 Raised(Exc(cls, "component", i)))
             /\ Throw(Exc(cls, "component", i))
    /\ UNCHANGED <<regVars, hook, exception>>

\* line 103: asyncio.gather wraps every coroutine in a task; run_until_complete starts
gather ==
    /\ pc = "launch"
    /\ \A i \in Indices : status[i] # "unlaunched"
    /\ status' = [i \in Indices |-> IF status[i] = "created" THEN "pending" ELSE status[i]]
    /\ pc' = "join"
    /\ UNCHANGED <<regVars, hook, raised, exception, escaped, events>>

\* a component's start task finishes while the loop runs
task_done(i) ==
    /\ LoopRunning
    /\ i \in Indices
    /\ status[i] = "pending"
    /\ status' = [status EXCEPT ![i] = "done"]
    /\ events' = Append(events, Ev("done", i))
    /\ UNCHANGED <<regVars, pc, hook, raised, exception, escaped>>

\* variant: the exception of the task that failed last is the one kept
task_fails_lastKept(i, cls) ==
    /\ LoopRunning
    /\ i \in Indices
    /\ status[i] = "pending"
    /\ status' = [status EXCEPT ![i] = "failed"]
    /\ events' = Append(events, Raised(Exc(cls, "component", i)))
    /\ IF pc = "join"
       THEN Throw(Exc(cls, "component", i)) /\ UNCHANGED exception
       ELSE /\ exception' = Exc(cls, "component", i)
            /\ UNCHANGED <<pc, raised, escaped>>
    /\ UNCHANGED <<regVars, hook>>

\* a component's start task raises while the loop runs: gather (no return_exceptions)
\* hands the first exception to run_until_complete at once; after the join was left
\* an Exception stays in the task, anything else leaves the running loop
task_fails(i, cls) ==
    /\ LoopRunning
    /\ i \in Indices
    /\ status[i] = "pending"
    /\ status' = [status EXCEPT ![i] = "failed"]
    /\ events' = Append(events, Raised(Exc(cls, "component", i)))
    /\ IF pc = "join"
       THEN Throw(Exc(cls, "component", i))
       ELSE IF cls = "Exception"
       THEN UNCHANGED <<pc, raised, escaped>>
       ELSE /\ pc' = "propagated"
            /\ escaped' = Exc(cls, "component", i)
            /\ UNCHANGED raised
    /\ UNCHANGED <<regVars, hook, exception>>

\* variant: the join gives up on the start operations still in flight
join_done_timeout ==
    /\ pc = "join"
    /\ \A i \in Indices : status[i] \in {"returned", "done", "pending"}
    /\ pc' = "except"
    /\ raised' = Exc("Exception", "component", 0)
    /\ UNCHANGED <<regVars, status, hook, exception, escaped, events>>

\* variant: the result of gather is not awaited
join_done_notAwaited ==
    /\ pc = "join"
    /\ pc' = "hook"
    /\ UNCHANGED <<regVars, status, hook, raised, exception, escaped, events>>

\* variant: the join returns as soon as one start operation has completed
join_done_firstCompleted ==
    /\ pc = "join"
    /\ \E i \in Indices : status[i] \in {"returned", "done"}
    /\ pc' = "hook"
    /\ UNCHANGED <<regVars, status, hook, raised, exception, escaped, events>>

\* lines 103-104: the gather future completes when every task has finished
join_done ==
    /\ pc = "join"
    /\ \A i \in Indices : status[i] \in {"returned", "done"}
    /\ pc' = "hook"
    /\ UNCHANGED <<regVars, status, hook, raised, exception, escaped, events>>

\* line 112: context.run_callbacks(ContextEventType.started) is called
DispatchStarted ==
    /\ pc' = "started"
    /\ UNCHANGED <<raised, escaped>>

\* variant: run_forever is entered without dispatching the started callbacks
start_withoutStartedDispatch ==
    /\ pc = "hook"
    /\ hook' = "returned"
    /\ events' = Append(Append(events, Ev("hook", 0)), Ev("serve", 0))
    /\ pc' = "serve"
    /\ UNCHANGED <<regVars, status, raised, exception, escaped>>

\* lines 107-109: self.start(context) returns None, returns a coroutine, or raises
start ==
    /\ pc = "hook"
    /\ \/ /\ hook' = "returned"
          /\ events' = Append(Append(events, Ev("hook", 0)), Ev("STARTED", 0))
          /\ DispatchStarted
       \/ /\ hook' = "pending"
          /\ events' = Append(events, Ev("hook", 0))
          /\ pc' = "hook_wait"
          /\ UNCHANGED <<raised, escaped>>
       \/ \E cls \in ExcClasses :
             /\ hook' = "raised"
             /\ events' = Append(Append(events, Ev("hook", 0)), Raised(Exc(cls, "hook", 0)))
             /\ Throw(Exc(cls, "hook", 0))
    /\ UNCHANGED <<regVars, status, exception>>

\* line 109: the coroutine of self.start finishes
start_done ==
    /\ pc = "hook_wait"
    /\ hook' = "done"
    /\ events' = Append(events, Ev("STARTED", 0))
    /\ DispatchStarted
    /\ UNCHANGED <<regVars, status, exception>>

\* line 109: the coroutine of self.start raises
start_fails(cls) ==
    /\ pc = "hook_wait"
    /\ hook' = "failed"
    /\ events' = Append(events, Raised(Exc(cls, "hook", 0)))
    /\ Throw(Exc(cls, "hook", 0))
    /\ UNCHANGED <<regVars, status, exception>>

\* lines 112-113, 120: the started callbacks have run; run_forever is entered
started_done ==
    /\ pc = "started"
    /\ pc' = "serve"
    /\ events' = Append(events, Ev("serve", 0))
    /\ UNCHANGED <<regVars, status, hook, raised, exception, escaped>>

\* line 112: a started callback raises
started_fails(cls) ==
    /\ pc = "started"
    /\ events' = Append(events, Raised(Exc(cls, "started", 0)))
    /\ Throw(Exc(cls, "started", 0))
    /\ UNCHANGED <<regVars, status, hook, exception>>

\* variant: the start operations still in flight are cancelled before shutdown
except_clause_cancelling ==
    /\ pc = "except"
    /\ exception' = raised
    /\ raised' = NoExc
    /\ status' = [i \in Indices |-> IF status[i] = "pending" THEN "cancelled" ELSE status[i]]
    /\ events' = Append(Append(events, Ev("write", 0)), Ev("FINISHED", 0))
    /\ pc' = "finish"
    /\ UNCHANGED <<regVars, hook, escaped>>

\* variant: the finished callbacks are dispatched only after run_forever
except_clause_withoutFinished ==
    /\ pc = "except"
    /\ exception' = raised
    /\ raised' = NoExc
    /\ events' = Append(Append(events, Ev("write", 0)), Ev("close", 0))
    /\ pc' = "stopped"
    /\ UNCHANGED <<regVars, status, hook, escaped>>

\* lines 114-116 and 124: the except clause stores the exception on the context,
\* then the finished callbacks are dispatched
except_clause ==
    /\ pc = "except"
    /\ exception' = raised
    /\ raised' = NoExc
    /\ events' = Append(Append(events, Ev("write", 0)), Ev("FINISHED", 0))
    /\ pc' = "finish"
    /\ UNCHANGED <<regVars, status, hook, escaped>>

\* variant: the exception that ends run_forever is stored on the context
serve_raises_recorded(cls) ==
    /\ pc = "serve"
    /\ exception' = Exc(cls, "serve", 0)
    /\ events' = Append(Append(Append(events, Raised(Exc(cls, "serve", 0))),
                               Ev("serve_end", 0)), Ev("FINISHED", 0))
    /\ pc' = "finish"
    /\ UNCHANGED <<regVars, status, hook, raised, escaped>>

\* lines 119-124: run_forever ends with an exception; KeyboardInterrupt and SystemExit
\* are passed over and the finished callbacks are dispatched, anything else propagates
serve_raises(cls) ==
    /\ pc = "serve"
    /\ IF CaughtWhileServing(cls)
       THEN /\ events' = Append(Append(Append(events, Raised(Exc(cls, "serve", 0))),
                                       Ev("serve_end", 0)), Ev("FINISHED", 0))
            /\ pc' = "finish"
            /\ UNCHANGED escaped
       ELSE /\ events' = Append(Append(events, Raised(Exc(cls, "serve", 0))),
                                Ev("serve_end", 0))
            /\ pc' = "propagated"
            /\ escaped' = Exc(cls, "serve", 0)
    /\ UNCHANGED <<regVars, status, hook, raised, exception>>

\* lines 124-126: the finished callbacks have run; the event loop is closed
finished_done ==
    /\ pc = "finish"
    /\ events' = Append(events, Ev("close", 0))
    /\ pc' = "stopped"
    /\ UNCHANGED <<regVars, status, hook, raised, exception, escaped>>

\* variant: the event loop is closed although a finished callback raised
finished_fails_closing(cls) ==
    /\ pc = "finish"
    /\ pc' = "propagated"
    /\ escaped' = Exc(cls, "finished", 0)
    /\ events' = Append(Append(events, Raised(Exc(cls, "finished", 0))), Ev("close", 0))
    /\ UNCHANGED <<regVars, status, hook, raised, exception>>

\* line 124: a finished callback raises; nothing catches it
finished_fails(cls) ==
    /\ pc = "finish"
    /\ pc' = "propagated"
    /\ escaped' = Exc(cls, "finished", 0)
    /\ events' = Append(events, Raised(Exc(cls, "finished", 0)))
    /\ UNCHANGED <<regVars, status, hook, raised, exception>>

\* the lifecycle state of the orchestrator at each position of run
State ==
    CASE pc = "registering" -> "REGISTERING"
      [] pc \in {"launch", "join", "hook", "hook_wait", "started"} -> "STARTING"
      [] pc = "except" -> "START_FAILED"
      [] pc = "serve" -> "RUNNING"
      [] pc = "finish" -> "STOPPING"
      [] pc = "stopped" -> "STOPPED"
      [] pc = "propagated" -> "ABORTED"

----------------------------------------------------------------------------

Init ==
    /\ components = <<>>
    /\ component_types = [n \in EntryPointNames |-> EntryPoint(n)]
    /\ loads = [n \in EntryPointNames |-> 0]
    /\ result = Ok
    /\ pc = "registering"
    /\ status = <<>>
    /\ hook = "uncalled"
    /\ raised = NoExc
    /\ exception = NoExc
    /\ escaped = NoExc
    /\ events = <<>>

\* the calls made while the application is being set up
RegNext ==
    \E alias \in AliasInputs, cls \in ClassInputs, kwargs \in KwargsInputs :
        add_component(alias, cls, kwargs)

\* the steps of one call of run
RunNext ==
    \/ run
    \/ \E i \in Indices : component_start(i)
    \/ gather
    \/ \E i \in Indices : task_done(i)
    \/ \E i \in Indices, cls \in ExcClasses : task_fails(i, cls)
    \/ join_done
    \/ start
    \/ start_done
    \/ \E cls \in ExcClasses : start_fails(cls)
    \/ started_done
    \/ \E cls \in ExcClasses : started_fails(cls)
    \/ except_clause
    \/ \E cls \in ExcClasses : serve_raises(cls)
    \/ finished_done
    \/ \E cls \in ExcClasses : finished_fails(cls)

Next == RegNext \/ RunNext

\* registration followed by run, from a freshly constructed Application
Spec == Init /\ [][Next]_vars

\* the add_component calls alone
Registration == Init /\ [][RegNext]_vars

\* the instance add_component('db') appends
DbInstance ==
    [alias |-> "db", cls |-> EntryTarget("db"),
     kwargs |-> Update(EmptyDict, ConfigGet("db"))]

\* the Application after n calls of add_component('db'), n = 0..MaxComponents
LifecycleInit ==
    \E n \in 0..MaxComponents :
        /\ components = [i \in 1..n |-> DbInstance]
        /\ component_types =
              [m \in EntryPointNames |->
                  IF m = "db" /\ n > 0 THEN Class(EntryTarget(m)) ELSE EntryPoint(m)]
        /\ loads = [m \in EntryPointNames |-> IF m = "db" /\ n > 0 THEN 1 ELSE 0]
        /\ result = Ok
        /\ pc = "registering"
        /\ status = <<>>
        /\ hook = "uncalled"
        /\ raised = NoExc
        /\ exception = NoExc
        /\ escaped = NoExc
        /\ events = <<>>

\* one call of run on an Application holding 0..MaxComponents components
Lifecycle == LifecycleInit /\ [][RunNext]_vars


\* one call of run in which every enabled step is eventually taken: the start
\* operations, the hook and the callbacks complete and run_forever is ended
LifecycleFair == LifecycleInit /\ [][RunNext]_vars /\ WF_vars(RunNext)

\* add_component calls without local parameters: by alias alone, and 'db' with a class
PlainCalls ==
    {[alias |-> a, cls |-> None] : a \in AliasInputs}
        \cup {[alias |-> [isStr |-> TRUE, s |-> "db"], cls |-> Class("Explicit")]}

PlainRegNext ==
    \E c \in PlainCalls : add_component(c.alias, c.cls, EmptyDict)

\* registration without local parameters followed by one call of run
Application == Init /\ [][PlainRegNext \/ RunNext]_vars

----------------------------------------------------------------------------
(* Vocabulary of the properties *)

RunEnded == pc \in {"stopped", "propagated"}

RaiseEvents == {k \in 1..Len(events) : events[k].e = "raise"}

StartupOrigins == {"component", "hook", "started"}

\* positions at which a startup operation raised an Exception
StartupFailures ==
    {k \in RaiseEvents : events[k].exc.origin \in StartupOrigins
                         /\ events[k].exc.cls = "Exception"}

Earliest(S) == CHOOSE k \in S : \A j \in S : k <= j

\* run_forever was ended by the termination signal
SignalEndedServe ==
    \E k \in RaiseEvents : /\ events[k].exc.origin = "serve"
                           /\ events[k].exc.cls \in {"KeyboardInterrupt", "SystemExit"}

\* run_forever was ended by any other exception
OtherEndedServe ==
    \E k \in RaiseEvents : /\ events[k].exc.origin = "serve"
                           /\ events[k].exc.cls \notin {"KeyboardInterrupt", "SystemExit"}

\* KeyboardInterrupt or SystemExit was raised during startup and left run
SignalEndedStartup ==
    /\ pc = "propagated"
    /\ escaped.origin \in StartupOrigins
    /\ exception = NoExc

AllComponentsStarted ==
    /\ pc # "registering"
    /\ \A i \in Indices : status[i] \in {"returned", "done"}
HookSucceeded == hook \in {"returned", "done"}

----------------------------------------------------------------------------
(* C1 *)

\* C1 as stated, with the termination signal read as arriving in the running phase:
\* whenever run has ended, FINISHED was dispatched exactly once.
C1_FinishedOnEveryExecution ==
    /\ Count("FINISHED") <= 1
    /\ (RunEnded /\ ~SignalEndedStartup) => Count("FINISHED") = 1

\* C1 (amended): FINISHED is dispatched at most once in every execution of run, and
\* exactly once whenever run returns, whenever a startup Exception was captured and
\* whenever KeyboardInterrupt or SystemExit ended the running phase; it is dispatched
\* zero times when run_forever raises any other exception or when KeyboardInterrupt or
\* SystemExit is raised during startup, because these propagate out of run.
C1_FinishedExactlyOnceUnlessPropagated ==
    /\ Count("FINISHED") <= 1
    /\ pc = "stopped" => Count("FINISHED") = 1
    /\ (exception # NoExc \/ SignalEndedServe) => Count("FINISHED") = 1
    /\ (OtherEndedServe \/ SignalEndedStartup) => Count("FINISHED") = 0

C1_Witness ==
    /\ pc = "stopped"
    /\ exception # NoExc
    /\ Count("FINISHED") = 1

----------------------------------------------------------------------------
(* C2 *)

\* C2: an Exception raised during startup (by a component's start, synchronously or
\* through its coroutine, by the application's start hook or by the started callbacks)
\* never propagates out of run: the first one is caught, stored in context.exception,
\* which is non-empty from then on, and run goes on to dispatch FINISHED.
C2_StartupFailureCaptured ==
    /\ (pc = "propagated" /\ escaped.origin \in StartupOrigins)
          => escaped.cls # "Exception"
    /\ StartupFailures # {} =>
          LET f == events[Earliest(StartupFailures)].exc
          IN \/ pc = "except" /\ raised = f
             \/ /\ pc \in {"finish", "stopped", "propagated"}
                /\ exception = f
                /\ Count("FINISHED") = 1
    /\ (pc = "stopped" /\ StartupFailures # {}) => exception # NoExc

C2_Witness ==
    /\ pc = "stopped"
    /\ \E i \in Indices : status[i] = "failed" /\ exception = Exc("Exception", "component", i)

----------------------------------------------------------------------------
(* C3 *)

C3_ServeOnlyAfterFullStartup ==
    /\ pc = "serve" =>
          /\ AllComponentsStarted
          /\ HookSucceeded
          /\ Count("STARTED") = 1
          /\ \A k \in RaiseEvents : events[k].exc.origin \notin StartupOrigins
          /\ exception = NoExc
    /\ (State = "START_FAILED" \/ exception # NoExc) => Count("serve") = 0

\* C3: RUNNING is entered only from the completed STARTED dispatch and only when every
\* component start and the hook succeeded and context.exception is empty; after a
\* startup failure the state goes START_FAILED -> STOPPING and never RUNNING.
C3_RunningOnlyOnSuccess ==
    /\ []C3_ServeOnlyAfterFullStartup
    /\ [][State = "START_FAILED" => State' = "STOPPING"]_vars
    /\ [][State' = "RUNNING" => pc = "started"]_vars

C3_Witness ==
    /\ pc = "serve"
    /\ Len(components) = 2
    /\ status[1] = "done"
    /\ status[2] = "returned"

----------------------------------------------------------------------------
(* C4 *)

\* C4 as stated: once the components, the hook and the STARTED dispatch have succeeded
\* and the serve phase has been entered, FINISHED has run exactly once when run ends.
C4_FinishedOnceAfterServe ==
    (RunEnded /\ AllComponentsStarted /\ HookSucceeded /\ Count("serve") = 1)
        => Count("FINISHED") = 1

\* C4 (amended): when all component starts and the hook succeed, STARTED is dispatched
\* once and its callbacks have run before the serve phase begins; STARTED is never
\* dispatched after FINISHED nor more than once; FINISHED is dispatched at most once,
\* only after the serve phase has ended if it began, exactly once when
\* KeyboardInterrupt or SystemExit ended the serve phase, and not at all when
\* run_forever raised any other exception.
C4_StartedBeforeServeBeforeFinished ==
    /\ Count("STARTED") <= 1
    /\ Count("FINISHED") <= 1
    /\ (AllComponentsStarted /\ HookSucceeded /\ pc \notin {"registering", "hook_wait"})
          => Count("STARTED") = 1
    /\ Count("serve") >= 1 =>
          /\ Count("STARTED") = 1
          /\ First("STARTED") < First("serve")
          /\ \A k \in RaiseEvents : events[k].exc.origin # "started"
    /\ (Count("STARTED") >= 1 /\ Count("FINISHED") >= 1)
          => First("STARTED") < First("FINISHED")
    /\ (Count("serve") >= 1 /\ Count("FINISHED") >= 1) =>
          /\ Count("serve_end") = 1
          /\ First("serve") < First("serve_end")
          /\ First("serve_end") < First("FINISHED")
    /\ SignalEndedServe => Count("FINISHED") = 1
    /\ OtherEndedServe => Count("FINISHED") = 0

C4_Witness ==
    /\ pc = "stopped"
    /\ Count("STARTED") = 1
    /\ Count("serve_end") = 1
    /\ Count("FINISHED") = 1

----------------------------------------------------------------------------
(* C5 *)

C5_ExceptionOnlyFromStartup ==
    /\ Count("write") <= 1
    /\ exception # NoExc =>
          /\ exception.cls = "Exception"
          /\ exception.origin \in StartupOrigins
          /\ \E k \in StartupFailures : events[k].exc = exception

\* C5: context.exception is empty unless a startup operation (component start, hook,
\* STARTED dispatch) failed; it is written at most once per run; neither the
\* termination signal ending the running phase nor the FINISHED dispatch writes it.
C5_CapturedFailureWrittenOnce ==
    /\ []C5_ExceptionOnlyFromStartup
    /\ [][(exception # NoExc) => (exception' = exception)]_vars
    /\ [][(pc \in {"serve", "finish"}) => (exception' = exception)]_vars

C5_Witness ==
    /\ pc = "stopped"
    /\ SignalEndedServe
    /\ exception = NoExc

----------------------------------------------------------------------------
(* C6 *)

\* C6: for every successful add_component(alias, class, kwargs) the configuration passed
\* to the constructor has exactly the keys of kwargs and of component_config[alias];
\* each override key carries the override value, each other key the local value;
\* overrides stored under another alias contribute nothing.
C6_MergedConfiguration ==
    [][\A alias \in AliasInputs, cls \in ClassInputs, kwargs \in KwargsInputs :
          (add_component(alias, cls, kwargs) /\ result' = Ok) =>
             LET over == IF alias.s \in DOMAIN component_config
                         THEN component_config[alias.s] ELSE EmptyDict
                 passed == components'[Len(components')].kwargs
             IN /\ Len(components') = Len(components) + 1
                /\ DOMAIN passed = (DOMAIN kwargs) \cup (DOMAIN over)
                /\ \A k \in DOMAIN over : passed[k] = over[k]
                /\ \A k \in (DOMAIN kwargs) \ (DOMAIN over) : passed[k] = kwargs[k]
      ]_vars

C6_Witness ==
    /\ result = Ok
    /\ Len(components) = 1
    /\ components[1].alias = "db"
    /\ DOMAIN components[1].kwargs = {"host", "port", "tls"}
    /\ components[1].kwargs["host"] = "b"
    /\ components[1].kwargs["port"] = "a"
    /\ components[1].kwargs["tls"] = "b"

----------------------------------------------------------------------------
(* C7 *)

----------------------------------------------------------------------------
(* C8 *)

\* C8: with a valid alias that no entry point declares and no class given,
\* add_component raises LookupError and leaves the component list unchanged; with a
\* class given it never raises LookupError and neither loads nor caches anything.
C8_UnregisteredAliasLookupFailure ==
    [][\A alias \in AliasInputs, cls \in ClassInputs, kwargs \in KwargsInputs :
          (add_component(alias, cls, kwargs) /\ alias.isStr /\ alias.s # "") =>
             /\ (cls = None /\ alias.s \notin EntryPointNames) =>
                   /\ result' = LookupFailure
                   /\ components' = components
             /\ cls # None =>
                   /\ result' # LookupFailure
                   /\ component_types' = component_types
                   /\ loads' = loads
      ]_vars

C8_Witness ==
    /\ result = LookupFailure
    /\ Len(components) = 1
    /\ components[1].alias = "x"

----------------------------------------------------------------------------
(* C9 *)

\* C9: add_component with a valid alias whose given class, or whose class loaded from
\* the entry point, is no subclass of Component raises the class TypeError and leaves
\* the component list unchanged (nothing is constructed or appended).
C9_NonConformingTypeRejected ==
    [][\A alias \in AliasInputs, cls \in ClassInputs, kwargs \in KwargsInputs :
          (/\ add_component(alias, cls, kwargs)
           /\ alias.isStr /\ alias.s # ""
           /\ \/ cls # None /\ cls.name \notin ComponentSubclasses
              \/ /\ cls = None
                 /\ alias.s \in EntryPointNames
                 /\ EntryTarget(alias.s) \notin ComponentSubclasses) =>
             /\ result' = TypeConformanceFailure
             /\ components' = components
      ]_vars

C9_Witness ==
    /\ result = TypeConformanceFailure
    /\ loads["legacy"] = 1
    /\ Len(components) = 1

----------------------------------------------------------------------------
(* C10 *)

C10_CacheConsistent ==
    \A n \in EntryPointNames :
        /\ loads[n] <= 1
        /\ loads[n] = 1 <=> ~component_types[n].ep
        /\ ~component_types[n].ep => component_types[n] = Class(EntryTarget(n))

\* C10: over any sequence of add_component calls each entry point is loaded at most
\* once: the first resolution stores the loaded class in self.component_types, the
\* entry never changes afterwards, no later call loads it again, and every instance
\* resolved through the registry is built from the cached class.
C10_PluginLoadedAtMostOnce ==
    /\ []C10_CacheConsistent
    /\ [][\A n \in EntryPointNames :
             ~component_types[n].ep =>
                (component_types'[n] = component_types[n] /\ loads'[n] = loads[n])]_vars
    /\ [][\A alias \in AliasInputs, kwargs \in KwargsInputs :
             (add_component(alias, None, kwargs) /\ result' = Ok) =>
                components'[Len(components')].cls = component_types'[alias.s].name]_vars

C10_Witness ==
    /\ Len(components) = 2
    /\ components[1].alias = "db" /\ components[1].cls = "DbComponent"
    /\ components[2].alias = "db" /\ components[2].cls = "DbComponent"
    /\ loads["db"] = 1

----------------------------------------------------------------------------
(* C11 *)

C11_OtherFailurePropagates ==
    OtherEndedServe =>
        /\ pc = "propagated"
        /\ escaped.origin = "serve"
        /\ escaped.cls \notin {"KeyboardInterrupt", "SystemExit"}
        /\ exception = NoExc
        /\ Count("FINISHED") = 0

\* C11: an exception that ends run_forever and is neither KeyboardInterrupt nor
\* SystemExit is not caught: it propagates out of run and context.exception stays
\* empty; RUNNING is left for STOPPING only by KeyboardInterrupt or SystemExit.
C11_RunningFailureNotCaught ==
    /\ []C11_OtherFailurePropagates
    /\ [][(State = "RUNNING" /\ State' = "STOPPING") => SignalEndedServe']_vars
    /\ [][State = "RUNNING" => State' \in {"STOPPING", "ABORTED"}]_vars

C11_Witness ==
    /\ pc = "propagated"
    /\ escaped = Exc("Exception", "serve", 0)
    /\ exception = NoExc

----------------------------------------------------------------------------
(* C12 *)

\* the component indices in the order in which start(context) was called
StartEvents == {k \in 1..Len(events) : events[k].e = "start"}
Launched == {events[k].i : k \in StartEvents}

\* a start call raised before returning
RaisedSynchronously == \E i \in Indices : status[i] = "raised"

\* C12 as stated, for the runs that nothing propagated out of: once the launch loop
\* has been left, every registered component has had its start operation called, also
\* when a start failed.
C12_EveryComponentLaunched ==
    pc \notin {"registering", "launch", "propagated"} => Launched = Indices

\* C12 (amended): start is called at most once per component, in registration order,
\* and every call comes before the join is awaited; every component is launched
\* unless a start call raises synchronously: then the components registered after the
\* raising one are never launched and the coroutines already returned are never
\* scheduled.
C12_LaunchedInOrderUntilRaise ==
    /\ \A k, j \in StartEvents : (k < j) => (events[k].i < events[j].i)
    /\ pc # "registering" =>
          /\ Launched = {i \in Indices : status[i] # "unlaunched"}
          /\ \A i \in Launched : \A j \in 1..i : j \in Launched
    /\ \A k \in StartEvents : \A j \in 1..Len(events) :
          events[j].e \in {"done", "hook"} => k < j
    /\ (pc \notin {"registering", "launch"} /\ ~RaisedSynchronously)
          => Launched = Indices
    /\ \A i \in Indices : (pc # "registering" /\ status[i] = "raised") =>
          /\ \A j \in Indices : j > i => status[j] = "unlaunched"
          /\ \A j \in Indices : j < i => status[j] \in {"returned", "created"}

C12_Witness ==
    /\ pc = "stopped"
    /\ Len(components) = 3
    /\ status[1] = "created"
    /\ status[2] = "raised"
    /\ status[3] = "unlaunched"

----------------------------------------------------------------------------
(* C13 *)

HookFailures ==
    {k \in RaiseEvents : events[k].exc.origin = "hook" /\ events[k].exc.cls = "Exception"}

\* C13: Application.start is called at most once, only after every component start
\* has completed without raising, and never in a run in which a component start
\* raised; an Exception raised by the hook, synchronously or through its coroutine, is
\* stored in context.exception like a component failure and STARTED is not dispatched.
C13_HookAfterAllComponents ==
    /\ Count("hook") <= 1
    /\ Count("hook") >= 1 =>
          /\ AllComponentsStarted
          /\ \A k \in RaiseEvents : events[k].exc.origin # "component"
    /\ hook # "uncalled" <=> Count("hook") = 1
    /\ HookFailures # {} =>
          /\ hook \in {"raised", "failed"}
          /\ Count("STARTED") = 0
          /\ Count("serve") = 0
          /\ \/ pc = "except" /\ raised.origin = "hook"
             \/ pc \in {"finish", "stopped", "propagated"} /\ exception.origin = "hook"

C13_Witness ==
    /\ pc = "stopped"
    /\ Len(components) = 2
    /\ hook = "failed"
    /\ exception = Exc("Exception", "hook", 0)

----------------------------------------------------------------------------
(* C14 *)

\* positions at which the start operation of a component raised an Exception
ComponentFailures ==
    {k \in RaiseEvents : events[k].exc.origin = "component"
                         /\ events[k].exc.cls = "Exception"}

C14_EarliestFailureKept ==
    (ComponentFailures # {} /\ pc \in {"finish", "stopped", "propagated"}
     /\ exception # NoExc) =>
        /\ exception = events[Earliest(ComponentFailures)].exc
        /\ \A k \in ComponentFailures :
              k # Earliest(ComponentFailures) => events[k].exc # exception

\* C14: when several component starts fail in one run, context.exception holds the
\* failure raised first in time, whatever the order in which the start operations
\* run, and no later failure replaces it.
C14_FirstFailureWins ==
    /\ []C14_EarliestFailureKept
    /\ [][(exception # NoExc) => (exception' = exception)]_vars

C14_Witness ==
    /\ pc = "stopped"
    /\ Len(components) = 3
    /\ status[1] = "failed"
    /\ status[2] = "failed"
    /\ status[3] = "done"
    /\ exception = Exc("Exception", "component", 2)

----------------------------------------------------------------------------
(* C15 *)

InFlight == {i \in Indices : pc # "registering" /\ status[i] = "pending"}

\* C15: when a start task raises an Exception while the join is awaited, run leaves
\* the join in that very step although other start operations are still in flight,
\* the except clause goes on to the FINISHED dispatch without waiting for them, and
\* nothing but its own completion or failure ever ends a start operation in flight
\* (run cancels none).
C15_FailureEndsJoinWithoutCancel ==
    /\ [][(pc = "join" /\ ComponentFailures' # ComponentFailures) => pc' = "except"]_vars
    /\ [][(pc = "except") => (pc' = "finish" /\ status' = status)]_vars
    /\ [][\A i \in InFlight : status'[i] \in {"pending", "done", "failed"}]_vars

C15_Witness ==
    /\ pc = "finish"
    /\ exception = Exc("Exception", "component", 2)
    /\ status[1] = "pending"
    /\ status[2] = "failed"

----------------------------------------------------------------------------
(* C16 *)

\* C16: while a start operation is still in flight and no start has raised, run is
\* waiting in the join (STARTING): the hook has not been called, neither STARTED nor
\* FINISHED has been dispatched and run_forever has not been entered; the join is left
\* only when every start has completed or one has raised.
C16_HangingStartBlocksStartup ==
    (InFlight # {} /\ \A k \in RaiseEvents : events[k].exc.origin # "component") =>
        /\ pc = "join"
        /\ State = "STARTING"
        /\ Count("hook") = 0
        /\ Count("STARTED") = 0
        /\ Count("FINISHED") = 0
        /\ Count("serve") = 0
        /\ raised = NoExc
        /\ exception = NoExc

C16_Witness ==
    /\ pc = "join"
    /\ Len(components) = 2
    /\ status[1] = "pending"
    /\ status[2] = "done"

----------------------------------------------------------------------------
(* C17 *)

\* nothing has raised except KeyboardInterrupt or SystemExit ending run_forever
NothingFails ==
    \A k \in RaiseEvents : /\ events[k].exc.origin = "serve"
                           /\ events[k].exc.cls \in {"KeyboardInterrupt", "SystemExit"}

RunCompleted ==
    /\ pc = "stopped"
    /\ Count("close") = 1
    /\ Count("FINISHED") = 1
    /\ exception = NoExc

\* C17: if every start operation, the hook and the callbacks complete without raising
\* and run_forever is eventually ended by KeyboardInterrupt or SystemExit, run
\* eventually returns with the event loop closed, FINISHED dispatched exactly once and
\* context.exception empty; with no component registered nothing is in flight and the
\* join can be left at once.
C17_RunEventuallyStops ==
    /\ ([]NothingFails) => <>RunCompleted
    /\ [](Len(components) = 0 => (InFlight = {} /\ (pc = "join" => ENABLED join_done)))

C17_Witness ==
    /\ RunCompleted
    /\ NothingFails
    /\ Len(components) = 2
    /\ status[1] = "done"
    /\ status[2] = "returned"
    /\ hook = "done"

----------------------------------------------------------------------------
(* C18 *)

IsPrefix(a, b) ==
    /\ Len(a) <= Len(b)
    /\ \A i \in 1..Len(a) : b[i] = a[i]

\* C18: every step keeps the instances already in self.components at their positions;
\* an add_component call appends exactly one instance at the end when it succeeds
\* (also for an alias used before) and none when it raises; no step of run changes
\* self.components, self.component_types or the number of plugin loads.
C18_ComponentListAppendOnly ==
    [][/\ IsPrefix(components, components')
       /\ Len(components') <= Len(components) + 1
       /\ (pc = "registering" /\ pc' = "registering") =>
             (result' = Ok <=> Len(components') = Len(components) + 1)
       /\ (pc # "registering" \/ pc' # "registering") =>
             /\ components' = components
             /\ component_types' = component_types
             /\ loads' = loads
      ]_vars

C18_Witness ==
    /\ pc = "stopped"
    /\ Len(components) = 3
    /\ components[1].alias = "db" /\ components[1].cls = "Explicit"
    /\ components[2].alias = "db" /\ components[2].cls = "DbComponent"
    /\ components[3].alias = "db" /\ components[3].cls = "Explicit"

----------------------------------------------------------------------------
(* C19 *)

C19_CloseAfterFinished ==
    /\ Count("close") <= 1
    /\ Count("close") = 1 =>
          /\ pc = "stopped"
          /\ Count("FINISHED") = 1
          /\ First("FINISHED") < First("close")
          /\ \A k \in RaiseEvents : events[k].exc.origin # "finished"
    /\ (\E k \in RaiseEvents : events[k].exc.origin = "finished") =>
          /\ pc = "propagated"
          /\ escaped.origin = "finished"
          /\ Count("close") = 0
    /\ pc = "propagated" => Count("close") = 0

\* C19: the event loop is closed only after the FINISHED dispatch has completed, on
\* every path; when a finished callback raises, the exception propagates out of run,
\* context.exception keeps its value and the event loop is not closed.
C19_SchedulerReleasedAfterFinished ==
    /\ []C19_CloseAfterFinished
    /\ [][(pc = "finish") => (exception' = exception)]_vars
    /\ [][(Count("close") = 0 /\ Count("close")' = 1) => pc = "finish"]_vars

C19_Witness ==
    /\ pc = "propagated"
    /\ escaped = Exc("Exception", "finished", 0)
    /\ exception = Exc("Exception", "component", 1)
    /\ Count("close") = 0

----------------------------------------------------------------------------
(* C20 *)

\* C20: an add_component call by alias alone that raises the class TypeError leaves
\* self.components unchanged and the loaded class in self.component_types[alias]; the
\* entry point is loaded by the first such call only, a later call for the same alias
\* raises the same error without loading again.
C20_FailingCall ==
    \A alias \in AliasInputs, kwargs \in KwargsInputs :
       (add_component(alias, None, kwargs) /\ result' = TypeConformanceFailure) =>
          /\ components' = components
          /\ component_types'[alias.s] = Class(EntryTarget(alias.s))
          /\ loads'[alias.s] = 1
          /\ ~component_types[alias.s].ep =>
                (loads' = loads /\ component_types' = component_types)

\* the cache holds a class for the alias that is not a Component subclass
CachedNonConforming(name) ==
    /\ ~component_types[name].ep
    /\ ~IsSubclass(component_types[name])

C20_LaterCall ==
    \A alias \in AliasInputs, kwargs \in KwargsInputs :
       (/\ add_component(alias, None, kwargs)
        /\ ValidAlias(alias)
        /\ Registered(component_types, alias.s)
        /\ CachedNonConforming(alias.s)) =>
          /\ result' = TypeConformanceFailure
          /\ loads' = loads
          /\ component_types' = component_types
          /\ components' = components

C20_NonConformingClassCached ==
    /\ [](\A name \in EntryPointNames : CachedNonConforming(name) => loads[name] = 1)
    /\ [][C20_FailingCall /\ C20_LaterCall]_vars

C20_Witness ==
    /\ result = TypeConformanceFailure
    /\ components = <<>>
    /\ CachedNonConforming("legacy")
    /\ component_types["legacy"] = Class(EntryTarget("legacy"))
    /\ loads["legacy"] = 1

====
